---- MODULE Spec2Model ----
(***************************************************************************)
(* Knowledge-base card synchronisation (kb_agent/tools.py): the evidence   *)
(* sanitizer, the coverage analysis, and the generate / validate /         *)
(* sanitize / refine / write pipeline of kb_upsert_cards_for_markdown.     *)
(*                                                                         *)
(* Texts are sequences of one-character strings.  Python dictionaries are  *)
(* records whose optional keys carry a tag ("absent", "null", ...).        *)
(***************************************************************************)
EXTENDS Integers, Sequences, FiniteSets, TLC

(***************************************************************************)
(* Bounds of the model                                                     *)
(***************************************************************************)
\* longest document text drawn for the sanitizer
MaxDocLen == 3
\* longest evidence string drawn for the sanitizer
MaxEvLen == 3

(***************************************************************************)
(* Text helpers                                                            *)
(***************************************************************************)
\* the characters of the texts drawn for the sanitizer
Alphabet == {"a", " ", "\n"}

\* str.split() / str.strip() treat every whitespace character alike
IsWs(c) == c \in {" ", "\n", "\t"}

RECURSIVE StrsUpTo(_)
StrsUpTo(n) ==
  IF n = 0 THEN {<<>>}
  ELSE LET S == StrsUpTo(n - 1)
       IN  S \cup {Append(s, c) : s \in {t \in S : Len(t) = n - 1}, c \in Alphabet}

\* x in y  (Python substring test on str)
IsSubstr(x, y) ==
  \E i \in 0..(Len(y) - Len(x)) : SubSeq(y, i + 1, i + Len(x)) = x

\* s.split(): the maximal runs of non-whitespace characters, in order
RECURSIVE SplitFrom(_, _, _)
SplitFrom(s, i, cur) ==
  IF i > Len(s)
    THEN IF cur = <<>> THEN <<>> ELSE <<cur>>
    ELSE IF IsWs(s[i])
      THEN IF cur = <<>> THEN SplitFrom(s, i + 1, <<>>)
                         ELSE <<cur>> \o SplitFrom(s, i + 1, <<>>)
      ELSE SplitFrom(s, i + 1, Append(cur, s[i]))

Split(s) == SplitFrom(s, 1, <<>>)

\* " ".join(words)
RECURSIVE JoinSp(_)
JoinSp(ws) ==
  IF ws = <<>> THEN <<>>
  ELSE IF Len(ws) = 1 THEN ws[1]
  ELSE ws[1] \o <<" ">> \o JoinSp(Tail(ws))

\* s.strip()
RECURSIVE LStrip(_)
LStrip(s) == IF s # <<>> /\ IsWs(s[1]) THEN LStrip(Tail(s)) ELSE s

RECURSIVE RStrip(_)
RStrip(s) ==
  IF s # <<>> /\ IsWs(s[Len(s)]) THEN RStrip(SubSeq(s, 1, Len(s) - 1)) ELSE s

Strip(s) == RStrip(LStrip(s))

\* tools.py _normalize_ws: " ".join((s or "").split())
_normalize_ws(s) == JoinSp(Split(s))

(***************************************************************************)
(* EvidenceSanitizer: _sanitize_judge_meta                                 *)
(*                                                                         *)
(* A judge_meta dictionary is a record                                     *)
(*   isDict     FALSE when the value passed is no dict at all              *)
(*   ok         "true", "false" or "absent" (key missing)                  *)
(*   missing    [tag, items]: tag "list" (a list, its items in items),     *)
(*              "absent" (no key), "null" (None), "other" (a non-list)     *)
(*   suggested  suggested_card_titles                                      *)
(*   removed    missing_sanitized_removed, 0 when the key is not set       *)
(*   overridden ok_sanitized_overridden set to True                        *)
(* A missing item is [kind, what, ev]: kind "dict" for a structured        *)
(* (what, evidence) item, whose ev is [tag, s] with tag "str", "absent"    *)
(* or "null"; kind "str" for a plain string item, whose text is in what.   *)
(* what is a sequence of words.                                            *)
(***************************************************************************)
EvStr(s) == [tag |-> "str", s |-> s]
EvAbsent == [tag |-> "absent", s |-> <<>>]
EvNull == [tag |-> "null", s |-> <<>>]
DictItem(what, ev) == [kind |-> "dict", what |-> what, ev |-> ev]
StrItem(text) == [kind |-> "str", what |-> text, ev |-> EvAbsent]

MissingList(items) == [tag |-> "list", items |-> items]
MissingAbsent == [tag |-> "absent", items |-> <<>>]
MissingNull == [tag |-> "null", items |-> <<>>]
MissingOther == [tag |-> "other", items |-> <<>>]

JudgeMeta(ok, missing, suggested) ==
  [isDict |-> TRUE, ok |-> ok, missing |-> missing, suggested |-> suggested,
   removed |-> 0, overridden |-> FALSE]

NotADict ==
  [isDict |-> FALSE, ok |-> "absent", missing |-> MissingAbsent,
   suggested |-> <<>>, removed |-> 0, overridden |-> FALSE]

\* str(item.get("evidence", "") or "").strip()
EvidenceText(item) == IF item.ev.tag = "str" THEN Strip(item.ev.s) ELSE <<>>

\* tools.py 332-340: the test that keeps an item of missing
\* a variant that looks for the evidence as it is written
KeepItem_raw_text(item, doc_norm) ==
  IF item.kind = "dict"
    THEN LET ev == EvidenceText(item)
         IN  ev # <<>> /\ IsSubstr(ev, doc_norm)
    ELSE TRUE
\* a variant that asks only for some evidence
KeepItem_any_evidence(item, doc_norm) ==
  IF item.kind = "dict" THEN EvidenceText(item) # <<>> ELSE TRUE
KeepItem(item, doc_norm) ==
  IF item.kind = "dict"
    THEN LET ev == EvidenceText(item)
         IN  ev # <<>> /\ IsSubstr(_normalize_ws(ev), doc_norm)
    ELSE TRUE

\* tools.py 329-340: the loop over missing_in; kept keeps the order
RECURSIVE KeptItems(_, _)
KeptItems(items, doc_norm) ==
  IF items = <<>> THEN <<>>
  ELSE IF KeepItem(Head(items), doc_norm)
    THEN <<Head(items)>> \o KeptItems(Tail(items), doc_norm)
    ELSE KeptItems(Tail(items), doc_norm)

RemovedCount(items, doc_norm) == Len(items) - Len(KeptItems(items, doc_norm))

_sanitize_judge_meta(doc_text, judge_meta) ==
  IF ~judge_meta.isDict
    THEN [isDict |-> TRUE, ok |-> "false",
          missing |-> MissingList(<<StrItem(<<"judge_meta_not_a_dict">>)>>),
          suggested |-> <<>>, removed |-> 0, overridden |-> FALSE]
    ELSE
      LET missing_in == IF judge_meta.missing.tag = "list"
                          THEN judge_meta.missing.items ELSE <<>>
          doc_norm == _normalize_ws(doc_text)
          kept == KeptItems(missing_in, doc_norm)
          removed_count == RemovedCount(missing_in, doc_norm)
          out == [judge_meta EXCEPT
                    !.missing = MissingList(kept),
                    !.removed = IF removed_count > 0 THEN removed_count ELSE @]
          ok_val == (out.ok = "true")
      IN  IF ~ok_val /\ kept = <<>> /\ judge_meta.missing.tag = "list"
            THEN [out EXCEPT !.ok = "true", !.overridden = TRUE]
            ELSE out

(***************************************************************************)
(* Paths.  A path is a sequence of components and a component a sequence   *)
(* of name atoms, so that "origins2" (<<"origins", "2">>) has "origins"    *)
(* as a string prefix and "x_a.md" has the stem atoms <<"x", "_", "a">>.   *)
(***************************************************************************)
\* ctx.kb.origins_dir, already absolute
origins_dir == << <<"kb">>, <<"origins">> >>

RelA == << <<"a", ".md">> >>
RelXA == << <<"x", "_", "a", ".md">> >>
RelSibling == << <<"..">>, <<"origins", "2">>, <<"e", ".md">> >>
RelOutside == << <<"..">>, <<"z">>, <<"e", ".md">> >>
RelNoFile == << <<"n", ".md">> >>
RelEmpty == <<>>
RelPaths == {RelA, RelXA, RelSibling, RelOutside, RelNoFile, RelEmpty}

IsSeqPrefix(x, y) == Len(x) <= Len(y) /\ SubSeq(y, 1, Len(x)) = x
IsSeqSuffix(x, y) == Len(x) <= Len(y) /\ SubSeq(y, Len(y) - Len(x) + 1, Len(y)) = x

\* Path.resolve(): a ".." component removes the component before it
RECURSIVE ResolveFrom(_, _)
ResolveFrom(done, rest) ==
  IF rest = <<>> THEN done
  ELSE IF Head(rest) = <<"..">>
    THEN ResolveFrom(IF done = <<>> THEN <<>> ELSE SubSeq(done, 1, Len(done) - 1),
                     Tail(rest))
    ELSE ResolveFrom(Append(done, Head(rest)), Tail(rest))

Resolve(p) == ResolveFrom(<<>>, p)

\* str(p).startswith(str(root)) on "/c1/c2/...": the components before root's
\* last are equal and root's last component is a string prefix of p's
StrStartsWith(p, root) ==
  /\ Len(root) <= Len(p)
  /\ SubSeq(p, 1, Len(root) - 1) = SubSeq(root, 1, Len(root) - 1)
  /\ IsSeqPrefix(root[Len(root)], p[Len(root)])

\* p lies in the directory tree of root
IsInside(p, root) == IsSeqPrefix(root, p)

\* tools.py _resolve_origin: ok = FALSE stands for ValueError("Path escapes origins_dir")
_resolve_origin(rel_path) ==
  LET p == Resolve(origins_dir \o rel_path)
  IN  [ok |-> StrStartsWith(p, Resolve(origins_dir)), path |-> p]

\* Path(rel).stem: the last component without its suffix
Stem(rel_path) ==
  LET name == rel_path[Len(rel_path)]
  IN  IF name[Len(name)] \in {".md", ".yml", ".yaml"}
        THEN SubSeq(name, 1, Len(name) - 1) ELSE name

\* Path.relative_to(origins_dir) of a file below it (_origin_rel)
_origin_rel(path) == SubSeq(path, Len(origins_dir) + 1, Len(path))

(***************************************************************************)
(* Source documents.  A content is named "c1", "c2", "c3"; Text gives its  *)
(* characters and file_sha256 its digest.                                  *)
(***************************************************************************)
Contents == {"c1", "c2"}

\* "# T\na b": a heading and one sentence;  "b\na": no heading
Text(c) ==
  CASE c = "c1" -> <<"#", " ", "T", "\n", "a", " ", "b">>
    [] c = "c2" -> <<"b", "\n", "a">>
    [] OTHER -> <<"e">>

\* cards.py file_sha256: collision-free on the contents of the model
file_sha256(c) ==
  CASE c = "c1" -> "d1"
    [] c = "c2" -> "d2"
    [] OTHER -> "d3"

Digests == {"d1", "d2", "d3"}

AbsA == origins_dir \o RelA
AbsXA == origins_dir \o RelXA
AbsSibling == Resolve(origins_dir \o RelSibling)
AbsOutside == Resolve(origins_dir \o RelOutside)

\* the corpus documents, which the model lets change
CorpusDocs == {AbsA, AbsXA}

\* tools.py _list_markdown_files: sorted(rglob) over origins_dir
_list_markdown_files(dsk) ==
  SelectSeq(<<AbsA, AbsXA>>, LAMBDA p : p \in DOMAIN dsk)

\* cards.py extract_title: the first line "# ..." stripped, else the fallback
RECURSIVE SplitLinesFrom(_, _, _)
SplitLinesFrom(s, i, cur) ==
  IF i > Len(s) THEN (IF cur = <<>> THEN <<>> ELSE <<cur>>)
  ELSE IF s[i] = "\n" THEN <<cur>> \o SplitLinesFrom(s, i + 1, <<>>)
  ELSE SplitLinesFrom(s, i + 1, Append(cur, s[i]))

SplitLines(s) == SplitLinesFrom(s, 1, <<>>)

RECURSIVE FirstHeading(_, _)
FirstHeading(lines, fallback) ==
  IF lines = <<>> THEN fallback
  ELSE LET line == Strip(Head(lines))
       IN  IF IsSeqPrefix(<<"#", " ">>, line)
             THEN Strip(SubSeq(line, 3, Len(line)))
             ELSE FirstHeading(Tail(lines), fallback)

extract_title(md_text, fallback) == FirstHeading(SplitLines(md_text), fallback)

(***************************************************************************)
(* The card directory (ctx.kb.cards_md_dir): a function from the names of  *)
(* the files in it to [text, readable].  A name card_<id>_<stem>.md is     *)
(* [id, stem], the id being the tuple the 12 hex digits are a hash of; a   *)
(* text is the sequence of its whitespace-separated tokens.                *)
(***************************************************************************)
\* len(sha) >= 32 in _extract_sha_from_md_card
MinShaLen == 32

CardName(id, stem) == [id |-> id, stem |-> stem]

\* glob("card_*_<stem>.md"): the name ends with "_<stem>.md" after "card_" and
\* the id, which holds no "_"
GlobMatch(name, stem) == IsSeqSuffix(<<"_">> \o stem, <<"_">> \o name.stem)

Matching(crd, stem) == {n \in DOMAIN crd : GlobMatch(n, stem)}

\* len() of a token: a sha256 hex digest, a sha1 hex digest, a short word
TokLen(tok) == IF tok \in Digests THEN 64 ELSE IF tok = "sha1hex" THEN 40 ELSE 8

\* text.rfind("source_sha256:"), 0 for -1
RECURSIVE RFind(_, _, _)
RFind(text, marker, i) ==
  IF i = 0 THEN 0 ELSE IF text[i] = marker THEN i ELSE RFind(text, marker, i - 1)

\* tools.py _extract_sha_from_md_card: [tag, sha] with tag "sha" (a digest is
\* returned), "none" (None is returned) or "raise" (split()[0] on an empty
\* tail raises IndexError)
\* a variant with find() in place of rfind()
_extract_sha_first_marker(text) ==
  LET hits == {i \in 1..Len(text) : text[i] = "source_sha256:"}
  IN  IF hits = {} \/ (CHOOSE i \in hits : \A j \in hits : i <= j) = Len(text)
        THEN [tag |-> "none", sha |-> ""]
        ELSE [tag |-> "sha",
              sha |-> text[(CHOOSE i \in hits : \A j \in hits : i <= j) + 1]]
_extract_sha_from_md_card(text) ==
  LET idx == RFind(text, "source_sha256:", Len(text))
  IN  IF idx = 0 THEN [tag |-> "none", sha |-> ""]
      ELSE IF idx = Len(text) THEN [tag |-> "raise", sha |-> "IndexError"]
      ELSE IF TokLen(text[idx + 1]) >= MinShaLen
        THEN [tag |-> "sha", sha |-> text[idx + 1]]
        ELSE [tag |-> "none", sha |-> ""]

\* tools.py 127-138: the loop over card_files, which stops at the first bad
\* file; [bad, invalid] with invalid the entries appended to the invalid list
RECURSIVE StaleScan(_, _, _, _)
StaleScan(crd, card_files, rel, current_hash) ==
  IF card_files = <<>> THEN [bad |-> FALSE, invalid |-> <<>>]
  ELSE LET cf == Head(card_files)
           got == _extract_sha_from_md_card(crd[cf].text)
       IN  IF ~crd[cf].readable
             THEN [bad |-> TRUE,
                   invalid |-> <<[rel |-> rel, name |-> cf, error |-> "OSError"]>>]
           ELSE IF got.tag = "raise"
             THEN [bad |-> TRUE,
                   invalid |-> <<[rel |-> rel, name |-> cf, error |-> got.sha]>>]
           ELSE IF got.tag = "none" \/ got.sha # current_hash
             THEN [bad |-> TRUE, invalid |-> <<>>]
           ELSE StaleScan(crd, Tail(card_files), rel, current_hash)

\* one order of a set of files, for what does not depend on the order
RECURSIVE SomeOrder(_)
SomeOrder(S) ==
  IF S = {} THEN <<>>
  ELSE LET x == CHOOSE y \in S : TRUE IN <<x>> \o SomeOrder(S \ {x})

\* tools.py 116-140 for one document: [missing, stale, invalid]
DocCoverage(dsk, crd, md, card_files, include_stale) ==
  LET rel == _origin_rel(md)
  IN  IF card_files = <<>>
        THEN [missing |-> TRUE, stale |-> FALSE, invalid |-> <<>>]
      ELSE IF ~include_stale
        THEN [missing |-> FALSE, stale |-> FALSE, invalid |-> <<>>]
      ELSE LET scan == StaleScan(crd, card_files, rel, file_sha256(dsk[md].content))
           IN  [missing |-> FALSE, stale |-> scan.bad, invalid |-> scan.invalid]

\* the report of kb_analyze_coverage, glob listing the files of document md
\* in the order order[md]
RECURSIVE CoverageLoop(_, _, _, _, _)
CoverageLoop(dsk, crd, md_files, order, include_stale) ==
  IF md_files = <<>> THEN [missing |-> <<>>, stale |-> <<>>, invalid |-> <<>>]
  ELSE LET md == Head(md_files)
           one == DocCoverage(dsk, crd, md, order[md], include_stale)
           rest == CoverageLoop(dsk, crd, Tail(md_files), order, include_stale)
       IN  [missing |-> (IF one.missing THEN <<_origin_rel(md)>> ELSE <<>>) \o rest.missing,
            stale |-> (IF one.stale THEN <<_origin_rel(md)>> ELSE <<>>) \o rest.stale,
            invalid |-> one.invalid \o rest.invalid]

\* raised is the exception that leaves the call ("" when it returns):
\* file_sha256(md) at line 125 is outside every try
kb_analyze_coverage(dsk, crd, order, include_stale) ==
  LET md_files == _list_markdown_files(dsk)
      lists == CoverageLoop(dsk, crd, md_files, order, include_stale)
      unhashable == \E i \in 1..Len(md_files) :
                      /\ order[md_files[i]] # <<>>
                      /\ include_stale
                      /\ ~dsk[md_files[i]].readable
  IN  IF unhashable
        THEN [raised |-> "PermissionError", origins_total |-> 0,
              missing_cards_for_origins |-> <<>>,
              stale_cards_for_origins |-> <<>>,
              invalid_card_md_files |-> <<>>]
        ELSE [raised |-> "", origins_total |-> Len(md_files),
              missing_cards_for_origins |-> lists.missing,
              stale_cards_for_origins |-> lists.stale,
              invalid_card_md_files |-> lists.invalid]

\* the orders in which glob may list the files of a stem.  The scan stops at
\* the first bad file and every file may be the first one listed, so the
\* orders that differ in their first file give every result there is
FirstFileOrders(crd, stem) ==
  LET found == Matching(crd, stem)
  IN  IF found = {} THEN {<<>>}
      ELSE {<<n>> \o SomeOrder(found \ {n}) : n \in found}

\* the orders glob may produce for the corpus documents
GlobOrders(dsk, crd) ==
  {[md \in CorpusDocs |-> IF md = AbsA THEN oa ELSE ox] :
     oa \in FirstFileOrders(crd, Stem(RelA)), ox \in FirstFileOrders(crd, Stem(RelXA))}

ToSet(seq) == {seq[i] : i \in 1..Len(seq)}

(***************************************************************************)
(* Cards and the replies of the language model.  A card (CardDraft) is     *)
(* [title, description, content_md]; description and content_md are named  *)
(* by what they hold: "MARKER" holds _FALLBACK_MARKER, "HEDGE" one of the  *)
(* forbidden phrases in capitals, "lead" starts with the lead-in phrase.   *)
(***************************************************************************)
\* attempts=3 of _llm_parse_pydantic
attempts == 3

Card(title, description, content_md) ==
  [title |-> title, description |-> description, content_md |-> content_md]

CardGood == Card(<<"t">>, "lead", "facts")
CardNoTitle == Card(<<" ">>, "nolead", "facts")
CardMarker == Card(<<"t">>, "lead", "MARKER")
CardHedge == Card(<<"u">>, "HEDGE", "facts")

\* WriterResult.cards of a reply that parses
WriterOutputs ==
  {<<>>, <<CardGood>>, <<CardGood, CardNoTitle>>, <<CardMarker>>, <<CardHedge>>}

\* _FALLBACK_MARKER in text (case-sensitive)
HasMarker(text) == text = "MARKER"
\* text.lower()
Lower(text) == IF text = "HEDGE" THEN "hedge" ELSE text
\* any(p in text for p in bad_phrases), on the lowered text
HasBadPhrase(lowered) == lowered = "hedge"

\* tools.py _cards_have_generation_error
_cards_have_generation_error(cards) ==
  \E i \in 1..Len(cards) :
    \/ HasMarker(cards[i].description) \/ HasMarker(cards[i].content_md)
    \/ HasBadPhrase(Lower(cards[i].description))
    \/ HasBadPhrase(Lower(cards[i].content_md))

\* tools.py 463-471: the placeholder card
PlaceholderCard(title) == Card(title, "lead", "MARKER")

\* tools.py 472: the quality report of the placeholder
PlaceholderJudge ==
  JudgeMeta("false", MissingList(<<StrItem(<<"generation_error">>)>>), <<>>)

\* evidence quoted from content c1 with other whitespace; evidence in no content
EvQuoted == <<"a", " ", " ", "b">>
EvInvented == <<"b", "b">>

\* JudgeResult of a reply that parses: ok is a bool, missing a list of
\* (what, evidence) items
JudgeOutputs ==
  {JudgeMeta("true", MissingList(<<>>), <<>>),
   JudgeMeta("true", MissingList(<<DictItem(<<"w">>, EvStr(EvQuoted))>>), <<>>),
   JudgeMeta("false", MissingList(<<>>), <<"s">>),
   JudgeMeta("false", MissingList(<<DictItem(<<"w">>, EvStr(EvQuoted))>>), <<"s">>),
   JudgeMeta("false", MissingList(<<DictItem(<<"w">>, EvStr(EvInvented))>>), <<>>),
   JudgeMeta("false", MissingList(<<DictItem(<<"v">>, EvStr(EvInvented)),
                                    DictItem(<<"w">>, EvStr(EvQuoted))>>), <<>>)}

\* what one ctx.llm.invoke gives: "error" (invoke raises), "unparsable"
\* (parser.parse raises), "schema" (a JSON schema, ValueError), "parsed"
Reply(kind, cards_out, meta) == [kind |-> kind, cards |-> cards_out, meta |-> meta]

WriterReplies ==
  {Reply(k, <<>>, NotADict) : k \in {"error", "unparsable", "schema"}}
    \cup {Reply("parsed", c, NotADict) : c \in WriterOutputs}

JudgeReplies ==
  {Reply(k, <<>>, NotADict) : k \in {"error", "unparsable", "schema"}}
    \cup {Reply("parsed", <<>>, m) : m \in JudgeOutputs}

\* type(e).__name__ of what _llm_parse_pydantic raises
ExceptionName(kind) ==
  CASE kind = "error" -> "ConnectionError"
    [] kind = "unparsable" -> "OutputParserException"
    [] kind = "schema" -> "ValueError"
    [] OTHER -> ""

\* tools.py _llm_parse_pydantic, one pass of its loop with att invocations made
\* before: "again" (reprompt), "raise" or "return"
\* a variant whose loop makes one pass more
LlmStep_one_more(kind, att) ==
  IF kind = "parsed" THEN "return"
  ELSE IF kind = "error" THEN "raise"
  ELSE IF att + 1 >= attempts + 1 THEN "raise" ELSE "again"
LlmStep(kind, att) ==
  IF kind = "parsed" THEN "return"
  ELSE IF kind = "error" THEN "raise"
  ELSE IF att + 1 >= attempts THEN "raise" ELSE "again"

\* tools.py _judge_once 389-391: the report that stands for a failed call
JudgeErrorMeta(exc) ==
  JudgeMeta("false", MissingList(<<StrItem(<<"judge_parse_error", exc>>)>>), <<>>)

(***************************************************************************)
(* State                                                                   *)
(***************************************************************************)
VARIABLES
  disk,     \* the documents on disk: absolute path -> [content, readable]
  cards,    \* the card directory: file name -> [text, readable]
  run,      \* the executing (or last) kb_upsert_cards_for_markdown call
  sync,     \* the executing (or last) kb_sync_all call
  ops,      \* tool calls that may still start
  env,      \* events of the environment (edits, I/O faults) that may still happen
  oracle,   \* the replies the language model may give to each call
  prev,     \* what the last completed synthesis returned and left
  report,   \* the result of the last read-only tool call
  sanDoc,   \* _sanitize_judge_meta: its doc_text argument
  sanIn,    \* _sanitize_judge_meta: its judge_meta argument
  sanOut    \* _sanitize_judge_meta: what it returned

sysvars == <<disk, cards, run, sync, ops, env, oracle, prev>>
sanvars == <<sanDoc, sanIn, sanOut>>
vars == <<disk, cards, run, sync, ops, env, oracle, prev, report, sanDoc, sanIn, sanOut>>

\* tool calls per behaviour of the corpus specification
MaxOps == 2
\* events of the environment per behaviour of the corpus specification
MaxEnv == 1
\* tool calls per behaviour of the pipeline specification
PipeCalls == 1
\* tool calls per behaviour of the specification with a deterministic model
IdemCalls == 2

NoQuality ==
  [set |-> FALSE, judge |-> NotADict, refinement_applied |-> "unset",
   refinement_error |-> ""]

\* no call made yet; force is the argument of the executing call; the fields
\* after created are history, kept for the claims
IdleRun ==
  [pc |-> "idle", caller |-> "tool", origin_rel_path |-> <<>>, force |-> FALSE,
   md_path |-> <<>>, md_text |-> "", md_hash |-> "", title |-> <<>>,
   raw_cards |-> <<>>, quality |-> NoQuality, att |-> 0, idx |-> 0,
   created |-> <<>>, error |-> "",
   io |-> {}, gen_calls |-> 0, refine_calls |-> 0, judge_calls |-> 0,
   judge_exc |-> "",
   first_out |-> "none", retry_out |-> "none", refine_out |-> "none",
   judge_in |-> <<>>, judge_raw |-> NotADict, refine_existing |-> <<>>, refined |-> <<>>,
   stuck |-> {}, llm_calls |-> 0]

NoSync ==
  [status |-> "idle", queue |-> <<>>, results |-> <<>>, processed |-> 0,
   force |-> FALSE]

\* a model that may give every reply to every call
AnyReply ==
  [first |-> WriterReplies, retry |-> WriterReplies, refine |-> WriterReplies,
   judge |-> JudgeReplies, counted |-> FALSE]

\* a model that fails or gives one of two clean card lists, and a validator
\* that accepts or reports one quoted gap
FewWriterReplies ==
  {Reply("error", <<>>, NotADict), Reply("parsed", <<CardGood>>, NotADict),
   Reply("parsed", <<CardGood, CardNoTitle>>, NotADict)}

FewJudgeReplies ==
  {Reply("parsed", <<>>, JudgeMeta("true", MissingList(<<>>), <<>>)),
   Reply("parsed", <<>>,
         JudgeMeta("false", MissingList(<<DictItem(<<"w">>, EvStr(EvQuoted))>>), <<"s">>))}

FewReplies ==
  [first |-> FewWriterReplies, retry |-> FewWriterReplies,
   refine |-> FewWriterReplies, judge |-> FewJudgeReplies, counted |-> FALSE]

NoPrev == [valid |-> FALSE, origin_rel_path |-> <<>>, md_hash |-> "",
           created |-> <<>>, matching |-> {}]

NoReport == [tool |-> "none"]

InitDisk ==
  [p \in {AbsA, AbsXA, AbsSibling, AbsOutside} |->
     [content |-> IF p = AbsA THEN "c1" ELSE IF p = AbsXA THEN "c2" ELSE "c3",
      readable |-> TRUE]]

\* _sanitize_judge_meta not called yet
NoOutput == [done |-> FALSE, meta |-> NotADict, again |-> FALSE, meta2 |-> NotADict]

SanIdle == sanDoc = <<>> /\ sanIn = NotADict /\ sanOut = NoOutput

\* the corpus specification: a fresh card directory, every tool call, edits
\* and I/O faults, and a model with few replies
Init ==
  /\ disk = InitDisk
  /\ cards = <<>>
  /\ run = IdleRun
  /\ sync = NoSync
  /\ ops = MaxOps
  /\ env = MaxEnv
  /\ oracle = FewReplies
  /\ prev = NoPrev
  /\ report = NoReport
  /\ SanIdle

\* no tool call is executing
Quiet == run.pc \in {"idle", "returned", "raised"} /\ sync.status # "running"

\* how a generator reply is classified (history)
OutClass(step, cards_out) ==
  IF step = "raise" THEN "raise"
  ELSE IF cards_out = <<>> THEN "empty"
  ELSE IF _cards_have_generation_error(cards_out) THEN "flagged" ELSE "clean"

(***************************************************************************)
(* kb_upsert_cards_for_markdown                                            *)
(***************************************************************************)

\* the call raises err; force, an argument, is gone with the call
Failed(r, err) == [r EXCEPT !.pc = "raised", !.error = err, !.force = FALSE]

\* tools.py 418-422: the argument check, _resolve_origin and read_text
BeginUpsert(rel, force, caller) ==
  LET base == [IdleRun EXCEPT !.caller = caller, !.origin_rel_path = rel,
                              !.force = force]
      res == _resolve_origin(rel)
  IN  IF rel = <<>> THEN Failed(base, "ValueError")
      ELSE IF ~res.ok THEN Failed(base, "ValueError")
      ELSE IF res.path \notin DOMAIN disk THEN Failed(base, "FileNotFoundError")
      ELSE IF ~disk[res.path].readable
        THEN Failed([base EXCEPT !.io = {"read"}], "UnicodeDecodeError")
      ELSE [base EXCEPT !.pc = "hash", !.md_path = res.path, !.io = {"read"},
                        !.md_text = disk[res.path].content]

\* what a call returned and left in the card directory (history)
Summary(r, crd) ==
  IF r.pc = "returned"
    THEN [valid |-> TRUE, origin_rel_path |-> r.origin_rel_path,
          md_hash |-> r.md_hash, created |-> r.created,
          matching |-> Matching(crd, Stem(r.origin_rel_path))]
    ELSE NoPrev

\* a tool call of kb_upsert_cards_for_markdown starts
UpsertStart ==
  /\ Quiet
  /\ ops > 0
  /\ \E rel \in RelPaths, force \in BOOLEAN :
       run' = BeginUpsert(rel, force, "tool")
  /\ sync' = NoSync
  /\ ops' = ops - 1
  /\ prev' = Summary(run, cards)
  /\ report' = NoReport
  /\ UNCHANGED <<disk, cards, env, oracle, sanvars>>

\* tools.py 423-425: file_sha256 reads the file a second time
\* a variant in which the cleanup comes before the fingerprint
HashStep_cleanup_first ==
  /\ run.pc = "hash"
  /\ run' = IF ~disk[run.md_path].readable
              THEN Failed(run, "PermissionError")
              ELSE [run EXCEPT !.pc = "cleanup",
                               !.md_hash = file_sha256(disk[run.md_path].content)]
  /\ cards' = IF ~disk[run.md_path].readable
                THEN [n \in (DOMAIN cards) \ Matching(cards, Stem(run.origin_rel_path))
                        |-> cards[n]]
                ELSE cards
  /\ UNCHANGED <<disk, sync, ops, env, oracle, prev, report, sanvars>>
HashStep ==
  /\ run.pc = "hash"
  /\ run' = IF ~disk[run.md_path].readable
              THEN Failed(run, "PermissionError")
              ELSE [run EXCEPT !.pc = "cleanup",
                               !.md_hash = file_sha256(disk[run.md_path].content)]
  /\ UNCHANGED <<disk, cards, sync, ops, env, oracle, prev, report, sanvars>>

\* tools.py 427-438: every file glob lists is unlinked, a failure is swallowed
\* and leaves the file; then extract_title
\* a variant in which a deletion that fails ends the call
Cleanup_raise_on_failure ==
  /\ run.pc = "cleanup"
  /\ LET stem == Stem(run.origin_rel_path)
         found == Matching(cards, stem)
     IN  \E stuck \in SUBSET found :
           /\ Cardinality(stuck) <= env
           /\ cards' = [n \in (DOMAIN cards) \ (found \ stuck) |-> cards[n]]
           /\ env' = env - Cardinality(stuck)
           /\ run' = IF stuck # {}
                        THEN Failed([run EXCEPT !.stuck = stuck], "PermissionError")
                        ELSE [run EXCEPT !.pc = "gen1", !.att = 0,
                                !.title = extract_title(Text(run.md_text), stem),
                                !.io = IF found = {} THEN @ ELSE @ \cup {"delete"}]
  /\ UNCHANGED <<disk, sync, ops, oracle, prev, report, sanvars>>
\* a variant that deletes nothing before the generation
Cleanup_keep_files ==
  /\ run.pc = "cleanup"
  /\ run' = [run EXCEPT !.pc = "gen1", !.att = 0,
               !.title = extract_title(Text(run.md_text), Stem(run.origin_rel_path))]
  /\ UNCHANGED <<disk, cards, sync, ops, env, oracle, prev, report, sanvars>>
Cleanup ==
  /\ run.pc = "cleanup"
  /\ LET stem == Stem(run.origin_rel_path)
         found == Matching(cards, stem)
     IN  \E stuck \in SUBSET found :
           /\ Cardinality(stuck) <= env
           /\ cards' = [n \in (DOMAIN cards) \ (found \ stuck) |-> cards[n]]
           /\ env' = env - Cardinality(stuck)
           /\ run' = [run EXCEPT !.pc = "gen1", !.att = 0, !.stuck = stuck,
                        !.title = extract_title(Text(run.md_text), stem),
                        !.io = IF found \ stuck = {} THEN @ ELSE @ \cup {"delete"}]
  /\ UNCHANGED <<disk, sync, ops, oracle, prev, report, sanvars>>

\* ctx.llm.invoke was called once more inside the current call (history);
\* the invocations of a run are counted when the model carries a counter
Invoked(r, reply) ==
  [r EXCEPT !.att = @ + 1,
            !.llm_calls = IF oracle.counted THEN @ + 1 ELSE @,
            !.gen_calls = IF r.att = 0 /\ r.pc # "judge" THEN @ + 1 ELSE @,
            !.refine_calls = IF r.att = 0 /\ r.pc = "refine" THEN @ + 1 ELSE @,
            !.judge_calls = IF r.att = 0 /\ r.pc = "judge" THEN @ + 1 ELSE @]

\* tools.py 440-448: the first _generate_cards_once call and the test that
\* sends its result to the retry
\* a variant that sends a clean result to the refinement
AfterFirst_refine_first(r, step, cards_out) ==
  [r EXCEPT !.att = 0, !.raw_cards = cards_out,
            !.first_out = OutClass(step, cards_out),
            !.pc = IF cards_out = <<>> \/ _cards_have_generation_error(cards_out)
                     THEN "retry" ELSE "refine"]
AfterFirst(r, step, cards_out) ==
  [r EXCEPT !.att = 0, !.raw_cards = cards_out,
            !.first_out = OutClass(step, cards_out),
            !.pc = IF cards_out = <<>> \/ _cards_have_generation_error(cards_out)
                     THEN "retry" ELSE "judge"]

Generate ==
  /\ run.pc = "gen1"
  /\ \E reply \in oracle.first :
       LET step == LlmStep(reply.kind, run.att)
           r == Invoked(run, reply)
       IN  run' = IF step = "again" THEN r
                  ELSE AfterFirst(r, step, IF step = "return" THEN reply.cards ELSE <<>>)
  /\ UNCHANGED <<disk, cards, sync, ops, env, oracle, prev, report, sanvars>>

\* tools.py 449-477: the retry call; an empty result gives the placeholder card
\* and its quality report, any other result goes to the judge
\* a variant that sends an empty result to the judge as well
AfterRetry_judge_anyway(r, step, cards_out) ==
  [r EXCEPT !.att = 0, !.retry_out = OutClass(step, cards_out),
            !.raw_cards = cards_out, !.pc = "judge"]
AfterRetry(r, step, cards_out) ==
  IF cards_out = <<>>
    THEN [r EXCEPT !.att = 0, !.retry_out = OutClass(step, cards_out),
                   !.raw_cards = <<PlaceholderCard(r.title)>>,
                   !.quality = [NoQuality EXCEPT !.set = TRUE, !.judge = PlaceholderJudge],
                   !.pc = "write"]
    ELSE [r EXCEPT !.att = 0, !.retry_out = OutClass(step, cards_out),
                   !.raw_cards = cards_out, !.pc = "judge"]

RetryGenerate ==
  /\ run.pc = "retry"
  /\ \E reply \in oracle.retry :
       LET step == LlmStep(reply.kind, run.att)
           r == Invoked(run, reply)
       IN  run' = IF step = "again" THEN r
                  ELSE AfterRetry(r, step, IF step = "return" THEN reply.cards ELSE <<>>)
  /\ UNCHANGED <<disk, cards, sync, ops, env, oracle, prev, report, sanvars>>

\* tools.py 475-480, 520-521: _judge_once (a failed call gives the error
\* report), _sanitize_judge_meta, and the test that sends a negative verdict
\* to the refinement
\* a variant that never sends a verdict to the refinement
AfterJudge_never_refine(r, meta) ==
  LET judge_meta == _sanitize_judge_meta(Text(r.md_text), meta)
  IN  [r EXCEPT !.att = 0, !.judge_raw = meta,
                !.quality = [NoQuality EXCEPT !.set = TRUE, !.judge = judge_meta,
                               !.refinement_applied = "false"],
                !.pc = "write"]
AfterJudge(r, meta) ==
  LET judge_meta == _sanitize_judge_meta(Text(r.md_text), meta)
      ok == (judge_meta.ok = "true")
  IN  [r EXCEPT !.att = 0, !.judge_raw = meta,
                !.quality = [NoQuality EXCEPT !.set = TRUE, !.judge = judge_meta,
                               !.refinement_applied = IF ok THEN "false" ELSE "unset"],
                !.pc = IF ok THEN "write" ELSE "refine"]

\* tools.py _judge_once 381-391: the try/except around the validator call
\* a variant with no except clause
_judge_once_result_propagate(r, step, reply) ==
  IF step = "return" THEN AfterJudge(r, reply.meta)
  ELSE Failed(r, ExceptionName(reply.kind))
_judge_once_result(r, step, reply) ==
  IF step = "return" THEN AfterJudge(r, reply.meta)
  ELSE AfterJudge(r, JudgeErrorMeta(ExceptionName(reply.kind)))

Judge ==
  /\ run.pc = "judge"
  /\ \E reply \in oracle.judge :
       LET step == LlmStep(reply.kind, run.att)
           r == [Invoked(run, reply) EXCEPT
                   !.judge_in = IF run.att = 0 THEN run.raw_cards ELSE @,
                   !.judge_exc = IF step = "raise" THEN ExceptionName(reply.kind) ELSE @]
       IN  run' = IF step = "again" THEN r ELSE _judge_once_result(r, step, reply)
  /\ UNCHANGED <<disk, cards, sync, ops, env, oracle, prev, report, sanvars>>

\* tools.py 504-519: the refinement call and what it leaves in raw_cards
\* a variant with no except clause around the refinement call
AfterRefine_propagate(r, step, reply) ==
  IF step = "return"
    THEN [r EXCEPT !.att = 0, !.pc = "write",
                   !.refine_out = OutClass(step, reply.cards),
                   !.refined = reply.cards,
                   !.raw_cards = IF reply.cards # <<>> THEN reply.cards ELSE @,
                   !.quality.refinement_applied =
                      IF reply.cards # <<>> THEN "true" ELSE "false"]
    ELSE Failed(r, ExceptionName(reply.kind))
\* a variant that takes whatever the refinement returned
AfterRefine_take_empty(r, step, reply) ==
  IF step = "return"
    THEN [r EXCEPT !.att = 0, !.pc = "write",
                   !.refine_out = OutClass(step, reply.cards),
                   !.refined = reply.cards,
                   !.raw_cards = reply.cards,
                   !.quality.refinement_applied = "true"]
    ELSE [r EXCEPT !.att = 0, !.pc = "write", !.refine_out = "raise",
                   !.quality.refinement_applied = "false",
                   !.quality.refinement_error = ExceptionName(reply.kind)]
AfterRefine(r, step, reply) ==
  IF step = "return"
    THEN [r EXCEPT !.att = 0, !.pc = "write",
                   !.refine_out = OutClass(step, reply.cards),
                   !.refined = reply.cards,
                   !.raw_cards = IF reply.cards # <<>> THEN reply.cards ELSE @,
                   !.quality.refinement_applied =
                      IF reply.cards # <<>> THEN "true" ELSE "false"]
    ELSE [r EXCEPT !.att = 0, !.pc = "write", !.refine_out = "raise",
                   !.quality.refinement_applied = "false",
                   !.quality.refinement_error = ExceptionName(reply.kind)]

Refine ==
  /\ run.pc = "refine"
  /\ \E reply \in oracle.refine :
       LET step == LlmStep(reply.kind, run.att)
           r == [Invoked(run, reply) EXCEPT
                   !.refine_existing = IF run.att = 0 THEN run.raw_cards ELSE @]
       IN  run' = IF step = "again" THEN r ELSE AfterRefine(r, step, reply)
  /\ UNCHANGED <<disk, cards, sync, ops, env, oracle, prev, report, sanvars>>

\* the rel path as the word written after "source:"
PathStr(rel) ==
  CASE rel = RelA -> "origins/a.md"
    [] rel = RelXA -> "origins/x_a.md"
    [] rel = RelSibling -> "origins/../origins2/e.md"
    [] OTHER -> "origins/?"

\* tools.py 530-531: the description gets the lead-in phrase if it has none
DescOut(description) ==
  CASE description = "" -> ""
    [] Lower(description) = "lead" -> description
    [] description = "HEDGE" -> "lead HEDGE"
    [] OTHER -> "lead nolead"

\* tools.py 528: the title of the card, or "<title> - part <idx+1>"
CardTitle(rc, title, idx) ==
  IF Strip(rc.title) # <<>> THEN [text |-> Strip(rc.title), part |-> 0]
                            ELSE [text |-> title, part |-> idx + 1]

\* tools.py 535: sha256(f"{origin_rel_path}:{md_hash}:{idx}:{t}")[:12]
\* a variant whose id depends on the call, not only on what is hashed
CardId_counter(rel, md_hash, idx, t) ==
  [path |-> rel, sha |-> md_hash, idx |-> idx + ops, title |-> t]
CardId(rel, md_hash, idx, t) == [path |-> rel, sha |-> md_hash, idx |-> idx, title |-> t]

\* tools.py 538-542: the text of a card file, its provenance footer last
CardText(rel, md_hash, rc) ==
  <<"--", DescOut(rc.description), "--", rc.content_md,
    "<!--", "source:", PathStr(rel), "source_sha256:", md_hash, "-->">>

\* tools.py 527-553: one pass of the loop that writes the card files; write_text
\* may raise, which ends the call; after the last card the call returns
WriteCard ==
  /\ run.pc = "write"
  /\ run.idx < Len(run.raw_cards)
  /\ LET rc == run.raw_cards[run.idx + 1]
         t == CardTitle(rc, run.title, run.idx)
         name == CardName(CardId(run.origin_rel_path, run.md_hash, run.idx, t),
                          Stem(run.origin_rel_path))
         file == [text |-> CardText(run.origin_rel_path, run.md_hash, rc),
                  readable |-> TRUE]
     IN  \/ /\ cards' = (name :> file) @@ cards
            /\ run' = [run EXCEPT !.idx = @ + 1, !.created = Append(@, name),
                                  !.io = @ \cup {"write"},
                                  !.force = IF run.idx + 1 = Len(run.raw_cards)
                                              THEN FALSE ELSE @,
                                  !.pc = IF run.idx + 1 = Len(run.raw_cards)
                                           THEN "returned" ELSE "write"]
            /\ env' = env
         \/ /\ env > 0
            /\ env' = env - 1
            /\ cards' = cards
            /\ run' = Failed(run, "OSError")
  /\ UNCHANGED <<disk, sync, ops, oracle, prev, report, sanvars>>

(***************************************************************************)
(* kb_sync_all: the loop over _list_markdown_files; nothing catches what   *)
(* kb_upsert_cards_for_markdown raises                                     *)
(***************************************************************************)
RECURSIVE MapRel(_)
MapRel(paths) ==
  IF paths = <<>> THEN <<>> ELSE <<_origin_rel(Head(paths))>> \o MapRel(Tail(paths))

\* tools.py 557-558
SyncStart ==
  /\ Quiet
  /\ ops > 0
  /\ \E force \in BOOLEAN :
       LET md_files == _list_markdown_files(disk)
       IN  sync' = [status |-> IF md_files = <<>> THEN "returned" ELSE "running",
                    queue |-> MapRel(md_files), results |-> <<>>,
                    processed |-> Len(md_files), force |-> force]
  /\ run' = IdleRun
  /\ ops' = ops - 1
  /\ prev' = NoPrev
  /\ report' = NoReport
  /\ UNCHANGED <<disk, cards, env, oracle, sanvars>>

\* tools.py 559-561: the call for the next document
SyncCall ==
  /\ sync.status = "running"
  /\ run.pc = "idle"
  /\ sync.queue # <<>>
  /\ run' = BeginUpsert(Head(sync.queue), sync.force, "sync")
  /\ UNCHANGED <<disk, cards, sync, ops, env, oracle, prev, report, sanvars>>

\* tools.py 561-562: the result is appended; after the last document the
\* call returns
SyncCollect ==
  /\ sync.status = "running"
  /\ run.pc = "returned"
  /\ sync' = [sync EXCEPT
                !.results = Append(@, [origin |-> run.origin_rel_path,
                                       ok |-> run.pc = "returned",
                                       cards_md_count |-> Len(run.created)]),
                !.queue = Tail(@),
                !.force = IF Len(sync.queue) = 1 THEN FALSE ELSE @,
                !.status = IF Len(sync.queue) = 1 THEN "returned" ELSE "running"]
  /\ run' = IdleRun
  /\ UNCHANGED <<disk, cards, ops, env, oracle, prev, report, sanvars>>

\* what a call raises leaves kb_sync_all at once
SyncAbort ==
  /\ sync.status = "running"
  /\ run.pc = "raised"
  /\ sync' = [sync EXCEPT !.status = "raised", !.force = FALSE]
  /\ UNCHANGED <<disk, cards, run, ops, env, oracle, prev, report, sanvars>>

(***************************************************************************)
(* The environment: a document is edited, or made unreadable               *)
(***************************************************************************)
OtherContent(c) == IF c = "c1" THEN "c2" ELSE "c1"

DocChange ==
  /\ env > 0
  /\ \E d \in CorpusDocs :
       disk' = [disk EXCEPT ![d].content = OtherContent(@)]
  /\ env' = env - 1
  /\ report' = NoReport
  /\ UNCHANGED <<cards, run, sync, ops, oracle, prev, sanvars>>

DocUnreadable ==
  /\ env > 0
  /\ \E d \in CorpusDocs :
       /\ disk[d].readable
       /\ disk' = [disk EXCEPT ![d].readable = FALSE]
  /\ env' = env - 1
  /\ report' = NoReport
  /\ UNCHANGED <<cards, run, sync, ops, oracle, prev, sanvars>>

(***************************************************************************)
(* The read-only tools.  report holds what the last one returned, until    *)
(* the next tool call or event of the environment; a second query in the   *)
(* same state would return the same and is left out                        *)
(***************************************************************************)
\* a call kb_analyze_coverage(include_stale), glob listing in any order
AnalyzeCoverage ==
  /\ Quiet
  /\ report.tool = "none"
  /\ \E order \in GlobOrders(disk, cards), include_stale \in BOOLEAN :
       report' = [tool |-> "coverage", include_stale |-> include_stale,
                  out |-> kb_analyze_coverage(disk, cards, order, include_stale)]
  /\ UNCHANGED <<sysvars, sanvars>>

\* the max_chars arguments of the model: below and above every text
MaxCharsValues == {2, 12000}

\* tools.py kb_read_markdown: [raised, io, content]
kb_read_markdown(dsk, rel, max_chars) ==
  LET res == _resolve_origin(rel)
  IN  IF rel = <<>> THEN [raised |-> "ValueError", io |-> {}, content |-> <<>>]
      ELSE IF ~res.ok THEN [raised |-> "ValueError", io |-> {}, content |-> <<>>]
      ELSE IF res.path \notin DOMAIN dsk
        THEN [raised |-> "FileNotFoundError", io |-> {}, content |-> <<>>]
      ELSE IF ~dsk[res.path].readable
        THEN [raised |-> "UnicodeDecodeError", io |-> {"read"}, content |-> <<>>]
      ELSE LET text == Text(dsk[res.path].content)
           IN  [raised |-> "", io |-> {"read"},
                content |-> IF Len(text) > max_chars
                              THEN SubSeq(text, 1, max_chars) \o <<"\n", "\n", "[TRUNCATED]">>
                              ELSE text]

ReadMarkdown ==
  /\ Quiet
  /\ report.tool = "none"
  /\ \E rel \in RelPaths, max_chars \in MaxCharsValues :
       report' = [tool |-> "read", rel |-> rel,
                  out |-> kb_read_markdown(disk, rel, max_chars)]
  /\ UNCHANGED <<sysvars, sanvars>>

\* the steps of one kb_upsert_cards_for_markdown call
UpsertNext ==
  \/ UpsertStart
  \/ HashStep
  \/ Cleanup
  \/ Generate
  \/ RetryGenerate
  \/ Judge
  \/ Refine
  \/ WriteCard

Next ==
  \/ UpsertNext
  \/ SyncStart
  \/ SyncCall
  \/ SyncCollect
  \/ SyncAbort
  \/ DocChange
  \/ DocUnreadable
  \/ AnalyzeCoverage

Spec == Init /\ [][Next]_vars

(***************************************************************************)
(* The pipeline specification: calls of kb_upsert_cards_for_markdown for   *)
(* the two corpus documents, each with either content, and a model that    *)
(* may give every reply; no edits and no I/O faults                        *)
(***************************************************************************)
PipeInit ==
  /\ disk \in {[InitDisk EXCEPT ![AbsA].content = c] : c \in Contents}
  /\ cards = <<>>
  /\ run = IdleRun
  /\ sync = NoSync
  /\ ops = PipeCalls
  /\ env = 0
  /\ oracle = AnyReply
  /\ prev = NoPrev
  /\ report = NoReport
  /\ SanIdle

PipeSpec == PipeInit /\ [][UpsertNext]_vars

\* the pipeline specification with the invocations of the model counted
WorkInit ==
  /\ disk \in {[InitDisk EXCEPT ![AbsA].content = c] : c \in Contents}
  /\ cards = <<>>
  /\ run = IdleRun
  /\ sync = NoSync
  /\ ops = PipeCalls
  /\ env = 0
  /\ oracle = [AnyReply EXCEPT !.counted = TRUE]
  /\ prev = NoPrev
  /\ report = NoReport
  /\ SanIdle

WorkSpec == WorkInit /\ [][UpsertNext]_vars

(***************************************************************************)
(* What the claims call normalized text, kept evidence, matching files and *)
(* embedded fingerprint, written apart from the operators of the code      *)
(***************************************************************************)
\* every whitespace character becomes a space and a space after a space goes
RECURSIVE Squeeze(_)
Squeeze(s) ==
  IF s = <<>> THEN <<>>
  ELSE LET c == IF IsWs(s[1]) THEN " " ELSE s[1]
           rest == Squeeze(Tail(s))
       IN  IF c = " " /\ rest # <<>> /\ rest[1] = " " THEN rest ELSE <<c>> \o rest

\* a text with its whitespace runs collapsed to single spaces and its ends trimmed
WsNormalized(s) == Strip(Squeeze(s))

\* the item is one the claim says is kept for the document
ShouldKeep(item, doc_text) ==
  \/ item.kind = "str"
  \/ /\ item.ev.tag = "str"
     /\ WsNormalized(item.ev.s) # <<>>
     /\ IsSubstr(WsNormalized(item.ev.s), WsNormalized(doc_text))

ExpectedKept(items, doc_text) ==
  SelectSeq(items, LAMBDA item : ShouldKeep(item, doc_text))

\* the card files whose name matches the pattern card_*_<stem>.md
FilesOf(rel) ==
  LET stem == Stem(rel)
  IN  {n \in DOMAIN cards :
         \E k \in 0..Len(n.stem) :
           /\ SubSeq(n.stem, k + 1, Len(n.stem)) = stem
           /\ (k = 0 \/ n.stem[k] = "_")}

\* the provenance fingerprint a card text carries, "" if it has none that
\* can be parsed: the digest-long token after the last label
Fingerprint(text) ==
  LET at == {i \in 1..Len(text) : text[i] = "source_sha256:"}
  IN  IF at = {} THEN ""
      ELSE LET last == CHOOSE i \in at : \A j \in at : j <= i
           IN  IF last < Len(text) /\ TokLen(text[last + 1]) >= MinShaLen
                 THEN text[last + 1] ELSE ""

\* the steps a started call takes by itself
UpsertSteps ==
  \/ HashStep
  \/ Cleanup
  \/ Generate
  \/ RetryGenerate
  \/ Judge
  \/ Refine
  \/ WriteCard

\* the pipeline specification with a call that keeps running once started
PipeLiveSpec == PipeInit /\ [][UpsertNext]_vars /\ WF_vars(UpsertSteps)

(***************************************************************************)
(* Claims on the pipeline                                                  *)
(***************************************************************************)
\* the call has returned its card list and quality metadata
Finalized ==
  /\ run.pc = "returned"
  /\ run.quality.set
  /\ Len(run.created) = Len(run.raw_cards)

\* C1 as stated: a generator output flagged on the first call and on the
\* retry ends the synthesis with the one placeholder card and judge.ok =
\* false, after two generator calls and no validator call.
C1_RetryBound ==
  (run.pc = "returned" /\ run.first_out = "flagged" /\ run.retry_out = "flagged") =>
    /\ run.raw_cards = <<PlaceholderCard(run.title)>>
    /\ run.quality.judge.ok = "false"
    /\ run.gen_calls = 2
    /\ run.judge_calls = 0

\* the raw report holds a structured gap whose evidence is in the document
HasEvidencedGap(meta, doc_text) ==
  /\ meta.missing.tag = "list"
  /\ \E i \in 1..Len(meta.missing.items) :
       /\ meta.missing.items[i].kind = "dict"
       /\ ShouldKeep(meta.missing.items[i], doc_text)

\* the validator returned ok=false with an evidenced gap
NegativeWithEvidence ==
  /\ run.judge_calls = 1 /\ run.judge_exc = ""
  /\ run.pc \in {"refine", "write", "returned"}
  /\ run.judge_raw.isDict /\ run.judge_raw.ok = "false"
  /\ HasEvidencedGap(run.judge_raw, Text(run.md_text))

\* C2: when the validator returns ok=false with a gap whose evidence is in
\* the document, the refinement call is made exactly once, with the cards the
\* validator saw as its context, and the validator is called once, whatever
\* the refinement returns or raises.
C2_RefinementBound ==
  /\ run.judge_calls <= 1 /\ run.refine_calls <= 1
  /\ NegativeWithEvidence =>
       /\ run.pc = "refine" \/ run.refine_calls = 1
       /\ (run.refine_calls = 1) => (run.refine_existing = run.judge_in)
       /\ (run.pc \in {"write", "returned"}) =>
            (run.refine_calls = 1 /\ run.refine_out # "none")

\* C2 witness: a negative evidenced report, a refinement that raised, and
\* the call returned with the cards the validator saw
C2_Witness_RefineRaised ==
  /\ NegativeWithEvidence /\ Finalized
  /\ run.refine_out = "raise" /\ run.refine_calls = 1 /\ run.judge_calls = 1
  /\ run.raw_cards = run.judge_in

\* C7: a call for a readable corpus document always returns its card list
\* with the quality metadata, whatever the generator and the validator reply.
C7_AlwaysFinalizes == (run.pc = "hash") ~> Finalized

\* C7 witness: every model call of the run failed and the call returned the
\* placeholder
C7_Witness_TotalFailure ==
  /\ Finalized
  /\ run.first_out = "raise" /\ run.retry_out = "raise"
  /\ run.raw_cards = <<PlaceholderCard(run.title)>>

\* C8: when the validator call fails, the report is ok=false with one plain
\* string entry naming the exception, the sanitized report keeps that entry
\* as it is, and the call goes on to the refinement and the write step.
C8_ValidatorFailureDegraded ==
  (run.judge_exc # "") =>
    /\ run.pc \in {"refine", "write", "returned"}
    /\ run.judge_raw.ok = "false"
    /\ run.judge_raw.missing.items = <<StrItem(<<"judge_parse_error", run.judge_exc>>)>>
    /\ run.quality.judge.ok = "false"
    /\ run.quality.judge.missing = run.judge_raw.missing
    /\ run.quality.judge.removed = 0

\* C8 witness: the validator answered nothing parsable in any attempt and
\* the call returned
C8_Witness_JudgeUnparsable ==
  /\ Finalized
  /\ run.judge_exc = "OutputParserException"
  /\ run.quality.judge.missing.items[1].kind = "str"

(***************************************************************************)
(* The deterministic-model specification: calls of                         *)
(* kb_upsert_cards_for_markdown with a model that gives one fixed reply to *)
(* each of the four prompts                                                *)
(***************************************************************************)
FixedModels ==
  {[first |-> {Reply(f[1], f[2], NotADict)}, retry |-> {Reply(r[1], r[2], NotADict)},
    refine |-> {Reply(g[1], g[2], NotADict)}, judge |-> {j}, counted |-> FALSE] :
     f \in {<<"error", <<>> >>, <<"parsed", <<CardGood>> >>,
             <<"parsed", <<CardGood, CardNoTitle>> >>, <<"parsed", <<CardMarker>> >>},
     r \in {<<"unparsable", <<>> >>, <<"parsed", <<CardGood, CardNoTitle>> >>,
             <<"parsed", <<CardHedge>> >>},
     g \in {<<"error", <<>> >>, <<"parsed", <<>> >>, <<"parsed", <<CardGood>> >>},
     j \in {Reply("schema", <<>>, NotADict)} \cup FewJudgeReplies}

IdemInit ==
  /\ disk \in {[InitDisk EXCEPT ![AbsA].content = c] : c \in Contents}
  /\ cards = <<>>
  /\ run = IdleRun
  /\ sync = NoSync
  /\ ops = IdemCalls
  /\ env = 0
  /\ oracle \in FixedModels
  /\ prev = NoPrev
  /\ report = NoReport
  /\ SanIdle

IdemSpec == IdemInit /\ [][UpsertNext]_vars

\* C3: with a deterministic model, a second call in a row for a document
\* whose content did not change returns the same card files as the first,
\* and the files of the document in the card directory are the same set.
C3_Idempotence ==
  (/\ run.pc = "returned" /\ prev.valid
   /\ prev.origin_rel_path = run.origin_rel_path
   /\ prev.md_hash = run.md_hash) =>
    /\ run.created = prev.created
    /\ Matching(cards, Stem(run.origin_rel_path)) = prev.matching
    /\ prev.matching = ToSet(run.created)

\* C3 witness: the second call for a.md returned two card files after a
\* refinement, the same two as the first
C3_Witness_SecondRun ==
  /\ run.pc = "returned" /\ prev.valid
  /\ prev.origin_rel_path = RelA /\ run.origin_rel_path = RelA
  /\ run.refine_calls = 1
  /\ Len(run.created) = 2 /\ run.created = prev.created

(***************************************************************************)
(* Claims on the corpus                                                    *)
(***************************************************************************)
\* the card files named for the document: card_<id>_<stem>.md with its stem
OwnFiles(rel) == {n \in DOMAIN cards : n.stem = Stem(rel)}

\* C4 as stated: with staleness enabled, a document whose card files all
\* embed the fingerprint of its content is not reported stale, a document
\* with a card file that embeds another fingerprint is reported stale, and
\* after a call of kb_upsert_cards_for_markdown for it returned, every card
\* file of the document embeds the fingerprint the call computed.
C4_StalenessDetection ==
  /\ (report.tool = "coverage" /\ report.include_stale /\ report.out.raised = "") =>
       \A md \in CorpusDocs :
         LET rel == _origin_rel(md)
             current == file_sha256(disk[md].content)
         IN  (OwnFiles(rel) # {}) =>
               ((\A n \in OwnFiles(rel) : Fingerprint(cards[n].text) = current)
                  <=> rel \notin ToSet(report.out.stale_cards_for_origins))
  /\ (run.pc = "returned") =>
       \A n \in OwnFiles(run.origin_rel_path) : Fingerprint(cards[n].text) = run.md_hash

\* C9 as stated: kb_sync_all never raises, and when it has returned its
\* result holds one outcome for every source document.
C9_SyncFailureIsolation ==
  /\ sync.status # "raised"
  /\ (sync.status = "returned") => (Len(sync.results) = sync.processed)

\* C10 as stated: a call of kb_upsert_cards_for_markdown for a path that
\* resolves outside the corpus root is rejected and performs no file read,
\* deletion or write.
C10_PathContainment ==
  (/\ run.pc # "idle" /\ run.origin_rel_path # <<>>
   /\ ~IsInside(Resolve(origins_dir \o run.origin_rel_path), origins_dir)) =>
    (run.pc = "raised" /\ run.error = "ValueError" /\ run.io = {})

(***************************************************************************)
(* The query specification: the read-only tools in a corpus whose card     *)
(* directory holds any of three files, each with any of the texts below or *)
(* unreadable                                                              *)
(***************************************************************************)
\* card file texts: a footer with each digest; no footer; a label and nothing
\* after it; a label and a short token; a label and a sha1 digest; a body
\* that quotes a label before the footer
QueryTexts ==
  {CardText(RelA, d, CardGood) : d \in {"d1", "d2"}}
    \cup {<<"--", "lead", "--", "facts">>,
          <<"facts", "source_sha256:">>,
          <<"facts", "source_sha256:", "abc", "-->">>,
          <<"facts", "source_sha256:", "sha1hex", "-->">>,
          <<"source_sha256:", "d2", "facts", "<!--", "source_sha256:", "d1", "-->">>}

QueryFiles ==
  {[text |-> t, readable |-> TRUE] : t \in QueryTexts}
    \cup {[text |-> <<>>, readable |-> FALSE]}

\* two card files of a.md and one of x_a.md
QueryNames ==
  {CardName(CardId(RelA, "d1", 0, [text |-> <<"t">>, part |-> 0]), Stem(RelA)),
   CardName(CardId(RelA, "d1", 1, [text |-> <<"t">>, part |-> 0]), Stem(RelA)),
   CardName(CardId(RelXA, "d1", 0, [text |-> <<"t">>, part |-> 0]), Stem(RelXA))}

QueryInit ==
  /\ disk \in {[InitDisk EXCEPT ![AbsA].content = c, ![AbsXA].content = c2] :
                 c \in Contents, c2 \in Contents}
  /\ \E names \in SUBSET QueryNames : cards \in [names -> QueryFiles]
  /\ run = IdleRun
  /\ sync = NoSync
  /\ ops = 0
  /\ env = 0
  /\ oracle = FewReplies
  /\ prev = NoPrev
  /\ report = NoReport
  /\ SanIdle

QueryNext ==
  \/ AnalyzeCoverage
  \/ ReadMarkdown

QuerySpec == QueryInit /\ [][QueryNext]_vars

(***************************************************************************)
(* Claims on the coverage analysis                                         *)
(***************************************************************************)
InvalidFor(rel) ==
  {e \in ToSet(report.out.invalid_card_md_files) : e.rel = rel}

\* C6: kb_analyze_coverage with staleness enabled puts a document with no
\* matching card file in missing; leaves a document whose matching card files
\* all carry its current fingerprint out of missing, stale and invalid; puts
\* a document in stale when a matching card file has no parsable fingerprint
\* or another one; and puts a document whose only matching card file cannot
\* be read in invalid and in stale.
C6_CoverageClassification ==
  (report.tool = "coverage" /\ report.include_stale) =>
    \A md \in CorpusDocs :
      LET rel == _origin_rel(md)
          files == FilesOf(rel)
          current == file_sha256(disk[md].content)
          missing == ToSet(report.out.missing_cards_for_origins)
          stale == ToSet(report.out.stale_cards_for_origins)
      IN  /\ report.out.raised = ""
          /\ (files = {}) => rel \in missing
          /\ (files # {} /\ \A n \in files :
                 cards[n].readable /\ Fingerprint(cards[n].text) = current)
               => (rel \notin missing /\ rel \notin stale /\ InvalidFor(rel) = {})
          /\ (\E n \in files :
                 cards[n].readable /\ Fingerprint(cards[n].text) # current)
               => rel \in stale
          /\ (\E n \in files : files = {n} /\ ~cards[n].readable)
               => (rel \in stale /\ \E e \in InvalidFor(rel) : e.name \in files)

\* C6 witness: one report with a.md stale by an unreadable only file, and
\* x_a.md covered by a file whose body quotes another label
C6_Witness_Classified ==
  /\ report.tool = "coverage" /\ report.include_stale
  /\ Cardinality(FilesOf(RelXA)) = 1
  /\ \A n \in FilesOf(RelXA) :
       cards[n].readable /\ Len(cards[n].text) = 7 /\ cards[n].text[2] = "d2"
  /\ RelXA \notin ToSet(report.out.stale_cards_for_origins)
  /\ RelA \in ToSet(report.out.stale_cards_for_origins)
  /\ InvalidFor(RelA) # {}

(***************************************************************************)
(* The sanitizer specification: _sanitize_judge_meta applied to a document *)
(* text, and a judge_meta whose missing holds an item with any evidence    *)
(* string next to plain-string items and items with no evidence            *)
(***************************************************************************)
\* the values of judge_meta["missing"] around one structured item
MissingValues(ev) ==
  LET f == DictItem(<<"w">>, EvStr(ev))
      s == StrItem(<<"note">>)
      dA == DictItem(<<"v">>, EvAbsent)
      dN == DictItem(<<"v">>, EvNull)
  IN  {MissingAbsent, MissingNull, MissingOther}
        \cup {MissingList(l) : l \in {<<>>, <<f>>, <<s>>, <<dA>>, <<dN>>, <<f, s>>,
                                       <<dN, f>>, <<f, f>>}}

SanInputs(ev) ==
  {NotADict}
    \cup {JudgeMeta(ok, m, <<>>) : ok \in {"true", "false", "absent"},
                                   m \in MissingValues(ev)}

SanInit ==
  /\ disk = InitDisk
  /\ cards = <<>>
  /\ run = IdleRun
  /\ sync = NoSync
  /\ ops = 0
  /\ env = 0
  /\ oracle = FewReplies
  /\ prev = NoPrev
  /\ report = NoReport
  /\ sanDoc \in StrsUpTo(MaxDocLen)
  /\ \E ev \in StrsUpTo(MaxEvLen) : sanIn \in SanInputs(ev)
  /\ sanOut = NoOutput

\* a call _sanitize_judge_meta(doc_text=sanDoc, judge_meta=sanIn)
Sanitize ==
  /\ ~sanOut.done
  /\ sanOut' = [sanOut EXCEPT !.done = TRUE,
                              !.meta = _sanitize_judge_meta(sanDoc, sanIn)]
  /\ UNCHANGED <<sysvars, report, sanDoc, sanIn>>

\* a call _sanitize_judge_meta(doc_text=sanDoc, judge_meta=<the report the
\* call before returned>)
SanitizeAgain ==
  /\ sanOut.done /\ ~sanOut.again
  /\ sanOut' = [sanOut EXCEPT !.again = TRUE,
                              !.meta2 = _sanitize_judge_meta(sanDoc, sanOut.meta)]
  /\ UNCHANGED <<sysvars, report, sanDoc, sanIn>>

SanNext ==
  \/ Sanitize
  \/ SanitizeAgain

SanSpec == SanInit /\ [][SanNext]_vars

(***************************************************************************)
(* Claims on the sanitizer                                                 *)
(***************************************************************************)
\* C5: _sanitize_judge_meta keeps a structured missing item exactly when its
\* evidence, whitespace-normalized, is a non-empty literal substring of the
\* whitespace-normalized document text (plain-string items stay), counts
\* every dropped item, and turns a raw ok=false whose missing list lost every
\* item into ok=true with the override flag set.
C5_EvidenceFiltering ==
  (sanOut.done /\ sanIn.isDict) =>
    LET items == IF sanIn.missing.tag = "list" THEN sanIn.missing.items ELSE <<>>
        kept == ExpectedKept(items, sanDoc)
        out == sanOut.meta
    IN  /\ out.missing = MissingList(kept)
        /\ out.removed = Len(items) - Len(kept)
        /\ (sanIn.ok = "false" /\ sanIn.missing.tag = "list" /\ kept = <<>>)
              => (out.ok = "true" /\ out.overridden)

\* C5 witness: of two structured items one is quoted from the document with
\* other whitespace and kept, the other is dropped and counted
C5_Witness_KeptAndDropped ==
  /\ sanOut.done /\ sanIn.isDict
  /\ sanIn.missing.tag = "list" /\ Len(sanIn.missing.items) = 2
  /\ sanIn.missing.items[1].ev.tag = "null"
  /\ sanIn.missing.items[2].ev.s = <<"a", " ", "a">>
  /\ sanDoc = <<"a", "\n", "a">>
  /\ sanOut.meta.missing.items = <<sanIn.missing.items[2]>>
  /\ sanOut.meta.removed = 1

\* the structured entries of a report's missing list are all quoted from the
\* document: the evidence is a string that, whitespace-normalized, is a
\* literal substring of the whitespace-normalized document text
AllQuoted(meta, doc_text) ==
  \A i \in 1..Len(meta.missing.items) :
    LET item == meta.missing.items[i]
    IN  item.kind = "dict"
          => /\ item.ev.tag = "str"
             /\ IsSubstr(WsNormalized(item.ev.s), WsNormalized(doc_text))

\* C11: in every report _sanitize_judge_meta returns, and so in the quality
\* metadata of every synthesis that ran the validator, each structured
\* (what, evidence) entry of missing has evidence that is a literal substring
\* of the document text after whitespace normalization.
C11_SanitizedEvidenceQuoted ==
  /\ sanOut.done => AllQuoted(sanOut.meta, sanDoc)
  /\ (run.quality.set /\ run.judge_calls > 0)
        => AllQuoted(run.quality.judge, Text(run.md_text))

\* C11 witness: two structured entries quoting the document with other
\* whitespace than the document has, both returned
C11_Witness_QuotedEntriesLeft ==
  /\ sanOut.done /\ sanIn.isDict
  /\ sanIn.missing.tag = "list" /\ Len(sanIn.missing.items) = 2
  /\ \A i \in 1..2 : /\ sanIn.missing.items[i].kind = "dict"
                     /\ sanIn.missing.items[i].ev.tag = "str"
                     /\ sanIn.missing.items[i].ev.s = <<"a", " ", "a">>
  /\ sanDoc = <<"a", "\n", "a">>
  /\ sanOut.meta.missing.items = sanIn.missing.items

(***************************************************************************)
(* Claims on the verdict after sanitization and on the retry budgets       *)
(***************************************************************************)
\* the report holds a structured entry
HasStructured(meta) ==
  \E i \in 1..Len(meta.missing.items) : meta.missing.items[i].kind = "dict"

\* C12: the sanitized report has ok=false, and the REFINE step is entered,
\* only if a structured missing entry with evidence literally in the document
\* survived sanitization; whenever the raw verdict was negative and no
\* structured entry survived, the verdict is flipped to ok=true and flagged
\* as overridden.
C12_NegativeNeedsEvidence ==
  (run.judge_calls = 1 /\ run.quality.set) =>
    LET q == run.quality.judge
        survived == HasStructured(q) /\ AllQuoted(q, Text(run.md_text))
    IN  /\ (q.ok = "false" \/ run.pc = "refine" \/ run.refine_calls = 1)
             => survived
        /\ (run.judge_raw.ok = "false" /\ ~HasStructured(q))
             => (q.ok = "true" /\ q.overridden)

\* C13: every retry budget is exactly one extra attempt: within a step
\* (generation, validation, refinement) a failed call of the language model
\* is re-attempted at most once.  run.att is the number of answers the
\* executing call has rejected so far, each followed by another invocation
\* of the model, so one extra attempt at most means at most one such answer.
C13_OneExtraAttempt ==
  (run.pc \in {"gen1", "retry", "judge", "refine"}) => run.att <= 1

(***************************************************************************)
(* Claims on documents with distinct stems and on synchronization          *)
(***************************************************************************)
\* a step leaves alone every card file named for another document than the
\* one being synthesized
OthersUntouched ==
  (run.pc \in {"cleanup", "write"}) =>
    \A n \in DOMAIN cards :
      (n.stem # Stem(run.origin_rel_path))
        => (n \in DOMAIN cards' /\ cards'[n] = cards[n])

\* a coverage report speaks of each document by the card files named for it
CountsOwnFiles ==
  (report.tool = "coverage" /\ report.out.raised = "") =>
    \A md \in CorpusDocs :
      LET rel == _origin_rel(md)
      IN  /\ (rel \in ToSet(report.out.missing_cards_for_origins))
                <=> (OwnFiles(rel) = {})
          /\ (rel \in ToSet(report.out.stale_cards_for_origins))
                => \E n \in OwnFiles(rel) :
                     Fingerprint(cards[n].text) # file_sha256(disk[md].content)

\* C14: for two documents with distinct filename stems, the synthesis of one
\* never deletes or overwrites a card file written for the other, and
\* kb_analyze_coverage never counts a card file of one as a card file of the
\* other.
C14_StemIsolation == [][OthersUntouched]_vars /\ []CountsOwnFiles

\* C15: after kb_sync_all has returned, and with no document changed (here:
\* no event of the environment at all since the start), kb_analyze_coverage
\* reports an empty missing list and an empty stale list.
C15_SyncConverges ==
  (/\ sync.status = "returned" /\ env = MaxEnv
   /\ report.tool = "coverage" /\ report.out.raised = "") =>
    /\ report.out.missing_cards_for_origins = <<>>
    /\ report.out.stale_cards_for_origins = <<>>

(***************************************************************************)
(* Claims on kb_upsert_cards_for_markdown: force, order of the calls,      *)
(* fingerprint of the footer, placeholder                                  *)
(***************************************************************************)
\* the executing call follows at once a call for the same document that
\* returned with the same fingerprint and wrote card files, and nothing in
\* the environment happened: the card files of the document all embed its
\* current fingerprint when the call starts
UnchangedSinceLastCall ==
  /\ env = MaxEnv
  /\ run.pc \in {"cleanup", "gen1", "retry", "judge", "refine", "write"}
  /\ prev.valid /\ prev.origin_rel_path = run.origin_rel_path
  /\ prev.created # <<>> /\ prev.md_hash = run.md_hash

\* C16: force decides whether an unchanged document is regenerated: with
\* force=false a document whose card files all embed its current fingerprint
\* is not regenerated, no generator or validator call is made and the card
\* files stay as they are (with force=true it is regenerated).
C16_ForceDecides ==
  (UnchangedSinceLastCall /\ ~run.force) =>
    /\ run.gen_calls = 0 /\ run.judge_calls = 0
    /\ "delete" \notin run.io
    /\ run.pc # "write"

\* C17: unparsable provenance is staleness, never an error: a readable
\* matching card file with no fingerprint label, with a label and nothing
\* after it, or with a label and a token shorter than a digest makes the
\* document stale, and no entry of the invalid list is about a readable
\* card file.
C17_UnparsableIsStale ==
  (report.tool = "coverage" /\ report.include_stale /\ report.out.raised = "") =>
    /\ \A md \in CorpusDocs :
         (\E n \in FilesOf(_origin_rel(md)) :
              cards[n].readable /\ Fingerprint(cards[n].text) = "")
           => _origin_rel(md) \in ToSet(report.out.stale_cards_for_origins)
    /\ \A e \in ToSet(report.out.invalid_card_md_files) : ~cards[e.name].readable

\* the calls of a run that have started and have not completed: a call
\* starts with its first invocation of the model and completes when its
\* result or its exception is taken
FirstInFlight == run.gen_calls >= 1 /\ run.first_out = "none"
RetryInFlight == run.gen_calls - run.refine_calls = 2 /\ run.retry_out = "none"
JudgeInFlight == run.judge_calls = 1 /\ ~run.quality.set
RefineInFlight == run.refine_calls = 1 /\ run.refine_out = "none"
InFlight ==
  {c \in {"first", "retry", "judge", "refine"} :
     \/ c = "first" /\ FirstInFlight
     \/ c = "retry" /\ RetryInFlight
     \/ c = "judge" /\ JudgeInFlight
     \/ c = "refine" /\ RefineInFlight}

\* C18: in every run of kb_upsert_cards_for_markdown the first generation
\* call and the retry call, if made, have completed when the validator call
\* starts, the validator call has completed when the refinement call starts,
\* and at most one call of the model is in flight at any time.
C18_CallsInSequence ==
  /\ (run.judge_calls >= 1) =>
       /\ run.first_out # "none"
       /\ ~RetryInFlight
       /\ (run.first_out # "clean") => (run.retry_out # "none")
  /\ (run.refine_calls >= 1) =>
       (run.judge_calls = 1 /\ run.quality.set)
  /\ Cardinality(InFlight) <= 1

\* C18 witness: the refinement call is between two invocations after a first
\* call that was flagged, a retry and a validator call
C18_Witness_RefineInFlight ==
  /\ run.pc = "refine" /\ run.att = 1 /\ InFlight = {"refine"}
  /\ run.first_out = "flagged" /\ run.retry_out = "clean"
  /\ run.judge_calls = 1

\* C19: the fingerprint in the provenance footer of the card files a call
\* wrote is the fingerprint of the document content the call passed to the
\* generator and the validator, also when the document is modified while
\* the call runs.
C19_FooterMatchesContent ==
  (run.pc \in {"write", "returned"}) =>
    \A i \in 1..Len(run.created) :
      (run.created[i] \in DOMAIN cards)
        => Fingerprint(cards[run.created[i]].text) = file_sha256(run.md_text)

\* the first heading of the documents of the model: content c1 opens with
\* the line "# T", content c2 has no heading line
DocHeading(c) == IF c = "c1" THEN <<"T">> ELSE <<>>

\* the first call and the retry call both gave nothing to go on
BothGenerationsFailed ==
  /\ run.first_out \in {"raise", "empty", "flagged"}
  /\ run.retry_out \in {"raise", "empty"}

\* C20: when the first generation call fails or returns an empty or flagged
\* result and the retry call also fails or returns empty, the card set is
\* exactly one placeholder card, its title the document's first heading or
\* else its filename stem and its body the fixed failure marker, the quality
\* report has judge.ok=false with the fixed diagnostic reason, and neither
\* the validator nor a refinement call is made.
C20_PlaceholderFallback ==
  BothGenerationsFailed =>
    /\ Len(run.raw_cards) = 1
    /\ run.raw_cards[1].title =
         (IF DocHeading(run.md_text) # <<>> THEN DocHeading(run.md_text)
          ELSE Stem(run.origin_rel_path))
    /\ HasMarker(run.raw_cards[1].content_md)
    /\ run.quality.set /\ run.quality.judge.ok = "false"
    /\ run.quality.judge.missing = MissingList(<<StrItem(<<"generation_error">>)>>)
    /\ run.judge_calls = 0 /\ run.refine_calls = 0 /\ run.gen_calls = 2
    /\ run.pc \in {"write", "returned"}
    /\ (run.pc = "returned") =>
         /\ Len(run.created) = 1
         /\ HasMarker(cards[run.created[1]].text[4])

\* C20 witness: a first call that returned flagged cards, a retry that
\* raised, and the placeholder of a document with no heading written
C20_Witness_PlaceholderWritten ==
  /\ run.first_out = "flagged" /\ run.retry_out = "raise"
  /\ run.pc = "returned" /\ run.md_text = "c2"
  /\ run.raw_cards[1].title = Stem(run.origin_rel_path)
  /\ Len(run.created) = 1

(***************************************************************************)
(* Claims on what the validator sees and on the outcome of the refinement  *)
(***************************************************************************)
\* C21: the validator is called only with a card set that is non-empty and
\* not flagged by the malformed-output check, and with such a set it is
\* called exactly once.
C21_ValidatorSeesClean ==
  /\ run.judge_calls <= 1
  /\ (run.judge_calls = 1) =>
       (run.judge_in # <<>> /\ ~_cards_have_generation_error(run.judge_in))
  /\ (/\ run.pc \in {"refine", "write", "returned"}
      /\ \/ run.first_out = "clean"
         \/ run.retry_out = "clean") => (run.judge_calls = 1)

\* C22: a refinement call that returns a non-empty card list replaces the
\* candidate set and refinement_applied is true; one that returns an empty
\* list or raises leaves the candidate set as it was and refinement_applied
\* is false, with the kind of the failure in refinement_error when it
\* raised; with a sanitized verdict ok=true no refinement call is made and
\* refinement_applied is false.
C22_RefinementOutcome ==
  (run.pc \in {"write", "returned"} /\ run.judge_calls = 1) =>
    LET q == run.quality
    IN  /\ (run.refine_out \in {"clean", "flagged"}) =>
             /\ run.raw_cards = run.refined /\ run.refined # <<>>
             /\ q.refinement_applied = "true" /\ q.refinement_error = ""
        /\ (run.refine_out = "empty") =>
             /\ run.raw_cards = run.judge_in
             /\ q.refinement_applied = "false" /\ q.refinement_error = ""
        /\ (run.refine_out = "raise") =>
             /\ run.raw_cards = run.judge_in
             /\ q.refinement_applied = "false"
             /\ q.refinement_error \in {"ConnectionError", "OutputParserException",
                                        "ValueError"}
        /\ (q.judge.ok = "true") =>
             /\ run.refine_calls = 0 /\ run.refine_out = "none"
             /\ q.refinement_applied = "false"
             /\ run.raw_cards = run.judge_in

\* C22 witness: a refinement that returned two cards in place of the one
\* card the validator saw, written as two card files
C22_Witness_Replaced ==
  /\ run.pc = "returned" /\ run.judge_calls = 1 /\ run.refine_calls = 1
  /\ Len(run.judge_in) = 1 /\ Len(run.refined) = 2
  /\ run.raw_cards = run.refined
  /\ run.quality.refinement_applied = "true"
  /\ Len(run.created) = 2

(***************************************************************************)
(* More claims on the sanitizer                                            *)
(***************************************************************************)
\* C23: whatever the raw verdict and the raw missing field of a report (an
\* empty list, a list whose items were all dropped, an absent or null
\* field), a sanitized report with an empty missing list has ok=true.
C23_EmptyMissingIsCovered ==
  (/\ sanOut.done /\ sanIn.isDict /\ sanIn.ok \in {"true", "false"}
   /\ sanOut.meta.missing.items = <<>>)
    => sanOut.meta.ok = "true"

(***************************************************************************)
(* The writer specification: calls of kb_upsert_cards_for_markdown one     *)
(* after the other on the corpus, with deletions and writes that may fail, *)
(* and no other tool                                                       *)
(***************************************************************************)
WriterInit ==
  /\ disk = InitDisk
  /\ cards = <<>>
  /\ run = IdleRun
  /\ sync = NoSync
  /\ ops = MaxOps
  /\ env = MaxEnv
  /\ oracle = FewReplies
  /\ prev = NoPrev
  /\ report = NoReport
  /\ SanIdle

WriterSpec == WriterInit /\ [][UpsertNext]_vars

(***************************************************************************)
(* Claims on the replacement of the card files of a document               *)
(***************************************************************************)
\* the executing call is for a corpus document that had current card files
\* when it started: the call before it, for the same document with the same
\* fingerprint, returned and wrote them
HadCurrentFiles ==
  /\ run.pc \notin {"idle", "raised"} /\ run.md_path \in CorpusDocs
  /\ prev.valid /\ prev.origin_rel_path = run.origin_rel_path
  /\ prev.created # <<>> /\ prev.md_hash = file_sha256(disk[run.md_path].content)

\* the call has deleted and has not written yet
BetweenDeleteAndWrite ==
  \/ run.pc \in {"gen1", "retry", "judge", "refine"}
  \/ run.pc = "write" /\ run.idx = 0

\* C24: a run of kb_upsert_cards_for_markdown for a document that has current
\* card files passes through a state in which the document has no card
\* files: from the cleanup (every deletion succeeding) to the first write no
\* file matches its pattern, and kb_analyze_coverage in such a state reports
\* the document missing; a run that stops there leaves the document with no
\* card files.
C24_TransientlyUncovered ==
  (HadCurrentFiles /\ BetweenDeleteAndWrite) =>
    /\ Matching(cards, Stem(run.origin_rel_path)) = {}
    /\ \A order \in GlobOrders(disk, cards), include_stale \in BOOLEAN :
         run.origin_rel_path \in
           ToSet(kb_analyze_coverage(disk, cards, order, include_stale)
                   .missing_cards_for_origins)

\* C24 witness: the second call for a.md, whose first call wrote two card
\* files, waits for the validator with no card file of a.md left
C24_Witness_DeletedNotWritten ==
  /\ HadCurrentFiles /\ run.pc = "judge" /\ run.origin_rel_path = RelA
  /\ Len(prev.created) = 2
  /\ Matching(cards, Stem(RelA)) = {}

\* a step that deletes a card file is taken with the final card set made,
\* in the write step
DeletesOnlyAtWrite ==
  (\E n \in DOMAIN cards : n \notin DOMAIN cards')
    => (run.pc = "write" /\ run.quality.set)

\* C25: the existing card files of a document are deleted only after the
\* generate/validate/sanitize/refine pipeline has produced the final card
\* set, immediately before the new files are written; none is deleted before
\* or during a generator or validator call.
C25_CleanupAtWrite == [][DeletesOnlyAtWrite]_vars

\* C26: when the deletion of an existing card file of the document fails,
\* kb_upsert_cards_for_markdown still deletes the other matching files, runs
\* the pipeline, writes every new card file and returns normally (unless a
\* write fails by itself), and the file that could not be deleted stays in
\* the card directory.
C26_CleanupFailureSwallowed ==
  (run.stuck # {}) =>
    /\ run.stuck \subseteq DOMAIN cards
    /\ BetweenDeleteAndWrite
         => Matching(cards, Stem(run.origin_rel_path)) = run.stuck
    /\ (run.pc = "raised") => (run.quality.set /\ run.error = "OSError")
    /\ (run.pc = "returned") =>
         /\ Len(run.created) = Len(run.raw_cards)
         /\ ToSet(run.created) \subseteq DOMAIN cards

\* C26 witness: a call returned with its new card file written next to a
\* file of the call before that could not be deleted
C26_Witness_StuckFileStays ==
  /\ run.pc = "returned" /\ run.stuck # {}
  /\ run.created # <<>>
  /\ run.stuck \cap ToSet(run.created) = {}
  /\ run.stuck \subseteq DOMAIN cards

(***************************************************************************)
(* More claims on the coverage analysis                                    *)
(***************************************************************************)
\* C27: kb_analyze_coverage with staleness enabled adds an entry to the
\* invalid list for every matching card file of every document that raises
\* when read, and puts the document in stale, whatever the number, the order
\* and the state of the other matching card files of the document.
C27_EveryUnreadableReported ==
  (report.tool = "coverage" /\ report.include_stale /\ report.out.raised = "") =>
    \A md \in CorpusDocs :
      \A n \in FilesOf(_origin_rel(md)) :
        (~cards[n].readable) =>
          /\ _origin_rel(md) \in ToSet(report.out.stale_cards_for_origins)
          /\ \E e \in InvalidFor(_origin_rel(md)) : e.name = n

(***************************************************************************)
(* Full replacement of a document's card files, bounded work               *)
(***************************************************************************)
\* the provenance footer of a document: its path under the corpus root's
\* name and a fingerprint
Footer(rel, sha) ==
  <<"<!--", "source:", PathStr(rel), "source_sha256:", sha, "-->">>

\* C28: after a completed kb_upsert_cards_for_markdown for a document, with
\* a single writer, every deletion succeeding and the document not edited,
\* the card files matching the document's stem pattern are exactly the files
\* returned in cards_md_files, and each ends with a provenance footer that
\* carries the document's relative path and its current fingerprint; no file
\* of a previous, larger card set remains.
C28_FullReplacement ==
  (run.pc = "returned" /\ env = MaxEnv) =>
    /\ Matching(cards, Stem(run.origin_rel_path)) = ToSet(run.created)
    /\ Len(run.created) = Len(run.raw_cards)
    /\ \A n \in ToSet(run.created) :
         IsSeqSuffix(Footer(run.origin_rel_path,
                            file_sha256(disk[run.md_path].content)),
                     cards[n].text)

\* C28 witness: a call that returned one card file for a document whose call
\* before had written two, none of which is left
C28_Witness_SmallerSet ==
  /\ run.pc = "returned" /\ env = MaxEnv
  /\ prev.valid /\ prev.origin_rel_path = run.origin_rel_path
  /\ Len(prev.created) = 2 /\ Len(run.created) = 1
  /\ ToSet(prev.created) \cap ToSet(run.created) = {}
  /\ Cardinality(Matching(cards, Stem(run.origin_rel_path))) = 1

\* C29: every run of kb_upsert_cards_for_markdown makes at most three
\* generator calls (first, retry, refinement) and at most one validator
\* call, each call invokes the language model at most 3 times, and the run
\* invokes it at most 12 times in all.
C29_BoundedWork ==
  /\ run.gen_calls <= 3 /\ run.judge_calls <= 1
  /\ run.att < attempts
  /\ run.llm_calls <= attempts * (run.gen_calls + run.judge_calls)
  /\ run.llm_calls <= 12

\* C29 witness: a call returned after twelve invocations of the model
C29_Witness_TwelveInvocations ==
  /\ run.pc = "returned" /\ run.llm_calls = 12
  /\ run.gen_calls = 3 /\ run.judge_calls = 1

\* C30: for every document text and every report, _sanitize_judge_meta
\* applied to its own output with the same document text returns the verdict,
\* the missing list and the suggested titles of the first application.
C30_SanitizerIdempotent ==
  sanOut.again =>
    /\ sanOut.meta2.ok = sanOut.meta.ok
    /\ sanOut.meta2.missing = sanOut.meta.missing
    /\ sanOut.meta2.suggested = sanOut.meta.suggested

(***************************************************************************)
(* The failure specification: calls of kb_upsert_cards_for_markdown one    *)
(* after the other, for every path, on a corpus whose documents may become *)
(* unreadable, also between the two reads of a call                        *)
(***************************************************************************)
FailNext ==
  \/ UpsertNext
  \/ DocUnreadable

FailSpec == WriterInit /\ [][FailNext]_vars

\* what a call raises before its cleanup step: the argument check and
\* _resolve_origin (ValueError), read_text (FileNotFoundError,
\* UnicodeDecodeError), file_sha256 (PermissionError)
EarlyErrors ==
  {"ValueError", "FileNotFoundError", "UnicodeDecodeError", "PermissionError"}

\* the step in which a call raises one of them
RaisesEarly ==
  /\ run' # run
  /\ run'.pc = "raised" /\ run'.error \in EarlyErrors

\* C31: a call of kb_upsert_cards_for_markdown with an empty path, a path the
\* containment check rejects, or a document that does not exist or cannot be
\* read or fingerprinted raises before the cleanup step: it has deleted and
\* written nothing, and every card file is as it was.
C31_NoDestructionOnEarlyFailure ==
  [][RaisesEarly =>
       /\ run.pc \in {"idle", "returned", "raised", "hash"}
       /\ cards' = cards
       /\ run'.io \subseteq {"read"} /\ run'.stuck = {} /\ run'.created = <<>>]_vars

\* C31 witness: a call for a.md raised at the fingerprint, the document having
\* become unreadable after it was read, and the card files the call before
\* wrote for a.md are all there
C31_Witness_FilesKept ==
  /\ run.pc = "raised" /\ run.error = "PermissionError"
  /\ run.origin_rel_path = RelA
  /\ prev.valid /\ prev.origin_rel_path = RelA /\ prev.created # <<>>
  /\ ToSet(prev.created) \subseteq DOMAIN cards

(***************************************************************************)
(* The card list at the write step                                         *)
(***************************************************************************)
\* C32: at the write step of every call the card list holds at least one
\* card, whatever the generator and the validator did, and the returned
\* cards_md_count is the number of cards in that list.
C32_FinalSetNeverEmpty ==
  /\ (run.pc \in {"write", "returned"}) => Len(run.raw_cards) >= 1
  /\ (run.pc = "returned") => Len(run.created) = Len(run.raw_cards)

\* C32 witness: a call returned two card files after a refinement that
\* returned an empty list and left the two cards the validator saw
C32_Witness_EmptyRefinement ==
  /\ run.pc = "returned" /\ run.refine_out = "empty"
  /\ Len(run.raw_cards) = 2 /\ run.raw_cards = run.judge_in
  /\ Len(run.created) = 2

====
